---- MODULE Spec2Model ----
(***************************************************************************)
(* A model of the batch/commit core of the log-structured multi-tree       *)
(* key/value store: the Database counters and view watermark               *)
(* (basic_db.rs), the per-tree writer and read path (tree.rs), the index   *)
(* snapshot read (index.rs) and the WriteBatch facade's two-phase commit   *)
(* (imp.rs).                                                               *)
(*                                                                         *)
(* Every log append is a suspension point that may fail; every step of a   *)
(* commit (ReadyCommit per tree, lock + Commit allocation, master commit   *)
(* append, promotion of one tree, watermark swap) is one action, so views  *)
(* and other batches interleave with a commit at each of them.  A          *)
(* WriteBatch is driven by one caller at a time.  Reads of the log         *)
(* (Log::read_at) return the record that was appended at the address.      *)
(*                                                                         *)
(* The batch player, the index writer, the commit log and the loader are   *)
(* not among the source files; they follow sections 4.4 to 4.7 of the      *)
(* specification.                                                          *)
(*                                                                         *)
(* The compaction of a compacting tree (compacting_tree.rs) is modelled on *)
(* its own tree slots; the helpers the source leaves unimplemented and the *)
(* merge and promotion steps follow section 4.8 of the specification.      *)
(*                                                                         *)
(* Spec       : Db, BatchWriter and ViewReader, committing through         *)
(*              WriteBatch::commit.                                        *)
(* SpecFacade : WriteBatch::commit, abort and close on every batch.        *)
(* SpecRecovery : commits interrupted by crashes, each followed by init().  *)
(* SpecSavePoint: one batch with save points, committed and read back.      *)
(* SpecCompact  : concurrent compact() calls on one compacting tree.        *)
(* SpecCursor   : seek_first and next on a merge cursor over two trees.     *)
(* SpecInit     : concurrent init() calls on one Db.                        *)
(***************************************************************************)
EXTENDS Integers, Sequences, FiniteSets, TLC

\* ------------------------------------------------------------------ bounds
MaxBatches == 2     \* Db::batch() calls
MaxCalls   == 2     \* commit()/abort() calls, over all WriteBatches
MaxMuts    == 2     \* successful write/delete/delete_range calls, over all batches
MaxViews   == 1     \* ViewReaders alive at a time
MaxKey     == 1     \* keys are 1..MaxKey
MaxVal     == 2     \* values are 1..MaxVal
MaxCrashes == 2     \* crashes of the process, each followed by a fresh Db over the logs
MaxMarks   == 4     \* successful push/pop/rollback_save_point calls, over all batches
MaxCompactors == 2  \* compact() calls on the compacting tree
MaxHist    == 2     \* versions of a key in the active tree when compaction starts
MaxCursorKey == 3   \* the trees under a merge cursor hold keys 1..MaxCursorKey
MaxInits   == 2     \* init() calls on one Db

\* The trees of the database, in the order the facade iterates them.
TreeSeq == <<"a", "b">>
Trees   == {TreeSeq[n] : n \in 1..Len(TreeSeq)}
NTrees  == Len(TreeSeq)
Keys    == 1..MaxKey
Values  == 1..MaxVal
Batches == 0..(MaxBatches - 1)

NoBatch == -1       \* commit_lock is free
NoCommit == -1      \* no Commit number taken by the call
None    == [some |-> FALSE]

VARIABLES
    initialized,        \* Db.initialized
    next_batch,         \* Db.next_batch
    next_batch_commit,  \* Db.next_batch_commit
    next_commit,        \* Db.next_commit
    view_commit_limit,  \* Db.view_commit_limit
    commit_lock,        \* Db.commit_lock: the batch holding it, or NoBatch
    tree_log,           \* Tree.log of each tree: the appended commands
    commit_log,         \* Db.commit_log: the master commit records
    player,             \* Tree.batch_player of each tree: per batch, (command, address)
    index,              \* Tree.index of each tree: per key, the history list
    wb,                 \* the WriteBatch values: position of the caller and its locals
    views,              \* the commit limits of the ViewReaders handed out
    applied,            \* history: <<commit, tree>> pairs promoted to an index
    crashed,            \* history: per crash, the <<tree, address>> of the mutations
                        \* that no master commit record covered when it happened
    compact_state,      \* CompactingTree.compact_state
    trees,              \* CompactingTree.trees: the tree slots
    compactor,          \* the compact() calls: position of each caller and its locals
    merge_cursor,       \* a compacting_tree::Cursor: its tree cursors and `current`
    init_calls          \* the init() calls on the Db: where each of them is

vars == <<initialized, next_batch, next_batch_commit, next_commit,
          view_commit_limit, commit_lock, tree_log, commit_log, player,
          index, wb, views, applied, crashed, compact_state, trees, compactor,
          merge_cursor, init_calls>>

ctVars == <<compact_state, trees, compactor, merge_cursor>>

dbVars == <<initialized, next_batch, next_batch_commit, next_commit, view_commit_limit,
            commit_lock, tree_log, commit_log, player, index, wb, views, applied, crashed,
            init_calls>>

\* ----------------------------------------------------------------- records
Cmd(type, batch, key, value, end, bc) ==
    [type |-> type, batch |-> batch, key |-> key, value |-> value,
     end |-> end, batch_commit |-> bc]

CommitCommand(batch, bc, commit) ==
    [batch |-> batch, batch_commit |-> bc, commit |-> commit]

Max(S) == CHOOSE x \in S : \A y \in S : y <= x

\* --------------------------------------------------------------- index.rs
\* Index::read: the newest history entry whose commit is below gen.
IndexReadAtOrBelow(history, gen) ==
    LET vis == {n \in 1..Len(history) : history[n].commit <= gen}
    IN  IF vis = {} THEN None
        ELSE [some |-> TRUE, entry |-> history[Max(vis)]]

IndexRead(history, gen) ==
    LET vis == {n \in 1..Len(history) : history[n].commit < gen}
    IN  IF vis = {} THEN None
        ELSE [some |-> TRUE, entry |-> history[Max(vis)]]

\* The index writer obtained for one commit: append to the key's history.
Entry(commit, status, addr) == [commit |-> commit, status |-> status, addr |-> addr]

IndexWrite(idx, commit, key, addr) ==
    [idx EXCEPT ![key] = Append(@, Entry(commit, "Written", addr))]

IndexDelete(idx, commit, key, addr) ==
    [idx EXCEPT ![key] = Append(@, Entry(commit, "Deleted", addr))]

IndexDeleteRange(idx, commit, start, end, addr) ==
    [k \in Keys |->
        IF start <= k /\ k < end /\ idx[k] # <<>>
        THEN Append(idx[k], Entry(commit, "Deleted", addr))
        ELSE idx[k]]

\* ---------------------------------------------------------------- tree.rs
\* BatchPlayer::replay: the batch's mutations, in recording order, as index ops.
IsMutation(e) == e.cmd.type \in {"Write", "Delete", "DeleteRange"}

\* The frames of the save-point stack, outermost first, as one sequence.
RECURSIVE Flatten(_)
Flatten(frames) ==
    IF frames = <<>> THEN <<>> ELSE Head(frames) \o Flatten(Tail(frames))

\* The recording is projected through the save-point stack: a mutation goes
\* to the innermost frame, PushSavePoint starts a frame, PopSavePoint hands
\* the innermost frame's mutations to the enclosing one, RollbackSavePoint
\* drops them.  A pop or rollback without a push is left without effect, and
\* frames still open at the end keep their mutations.
RECURSIVE ReplayFrames(_, _)
ReplayFrames(p, frames) ==
    IF p = <<>> THEN Flatten(frames)
    ELSE LET e     == Head(p)
             depth == Len(frames)
             outer == SubSeq(frames, 1, depth - 1)
             nxt   == CASE IsMutation(e) ->
                             [frames EXCEPT ![depth] = Append(@, e)]
                       [] e.cmd.type = "PushSavePoint" ->
                             Append(frames, <<>>)
                       [] e.cmd.type = "PopSavePoint" /\ depth > 1 ->
                             [outer EXCEPT ![depth - 1] = @ \o frames[depth]]
                       [] e.cmd.type = "RollbackSavePoint" /\ depth > 1 ->
                             outer
                       [] OTHER -> frames
         IN  ReplayFrames(Tail(p), nxt)

\* Save-point markers are skipped: every recorded mutation is replayed.
ReplayIgnoringSavePoints(p) == SelectSeq(p, IsMutation)

Replay(p) == ReplayFrames(p, <<<<>>>>)

RECURSIVE ApplyOps(_, _, _)
ApplyOps(idx, ops, commit) ==
    IF ops = <<>> THEN idx
    ELSE LET op == Head(ops)
             nxt == CASE op.cmd.type = "Write" ->
                            IndexWrite(idx, commit, op.cmd.key, op.addr)
                      [] op.cmd.type = "Delete" ->
                            IndexDelete(idx, commit, op.cmd.key, op.addr)
                      [] OTHER ->
                            IndexDeleteRange(idx, commit, op.cmd.key, op.cmd.end, op.addr)
         IN  ApplyOps(nxt, Tail(ops), commit)

\* tree::BatchWriter::commit (commit_to_index): replay the player into the index.
TreeCommit(t, batch, commit) ==
    ApplyOps(index[t], Replay(player[t][batch]), commit)

\* Tree::read: the index entry's address is read back from the log; anything
\* but a Write record there is an error.
ReadOk(v)   == [ok |-> TRUE, some |-> TRUE, value |-> v]
ReadNone    == [ok |-> TRUE, some |-> FALSE, value |-> 0]
ReadErr     == [ok |-> FALSE, some |-> FALSE, value |-> 0]

TreeReadIn(idx, log, commit_limit, key) ==
    LET r == IndexRead(idx[key], commit_limit)
    IN  IF r.some
        THEN LET cmd == log[r.entry.addr]
             IN  IF cmd.type = "Write" THEN ReadOk(cmd.value) ELSE ReadErr
        ELSE ReadNone

\* ViewReader::read on the current state.
ViewRead(commit_limit, t, key) ==
    TreeReadIn(index[t], tree_log[t], commit_limit, key)

\* --------------------------------------------------------------- loader
\* The counters and indexes the Loader reconstructs from the logs.
LoadNext(S) == IF S = {} THEN 0 ELSE Max(S) + 1

CommitRecs == {commit_log[n] : n \in 1..Len(commit_log)}

\* The positions of ReadyCommit{b, bc} / AbortCommit{b, bc} in a tree's log.
RoundPos(t, type, b, bc) ==
    {n \in 1..Len(tree_log[t]) :
        /\ tree_log[t][n].type = type
        /\ tree_log[t][n].batch = b
        /\ tree_log[t][n].batch_commit = bc}

\* Each committed triple, in commit-log order, replays into the tree's index
\* the records of its batch that precede its ReadyCommit.
RECURSIVE LoadIndex(_, _, _)
LoadIndex(t, idx, n) ==
    IF n > Len(commit_log) THEN idx
    ELSE LET r    == commit_log[n]
             ents == [m \in 1..Len(tree_log[t]) |-> [cmd |-> tree_log[t][m], addr |-> m]]
             pos  == RoundPos(t, "ReadyCommit", r.batch, r.batch_commit)
             mine == SelectSeq(ents, LAMBDA e :
                        /\ e.cmd.batch = r.batch
                        /\ \E p \in pos : e.addr < p)
         IN  LoadIndex(t, ApplyOps(idx, Replay(mine), r.commit), n + 1)

\* loader::load: the counter seeds and the index of each tree.
LoaderLoad ==
    [next_batch        |-> LoadNext({r.batch : r \in CommitRecs}),
     next_batch_commit |-> LoadNext({r.batch_commit : r \in CommitRecs}),
     next_commit       |-> LoadNext({r.commit : r \in CommitRecs}),
     index             |-> [t \in Trees |-> LoadIndex(t, [k \in Keys |-> <<>>], 1)]]

IsMutationCmd(c) == c.type \in {"Write", "Delete", "DeleteRange"}

\* The addresses of the mutations that the commit recorded by r promoted in
\* tree t: those of r's batch that precede its ReadyCommit{batch, bc}.
Promoted(t, r) ==
    {m \in 1..Len(tree_log[t]) :
        /\ IsMutationCmd(tree_log[t][m])
        /\ tree_log[t][m].batch = r.batch
        /\ \E n \in RoundPos(t, "ReadyCommit", r.batch, r.batch_commit) : m < n}

\* ------------------------------------------------------------- WriteBatch
Idle(b) == [pc |-> "idle", bc |-> 0, i |-> 0, error |-> 0, commit |-> NoCommit,
            result |-> "none", tried |-> <<>>]

NoWb == [pc |-> "none", bc |-> 0, i |-> 0, error |-> 0, commit |-> NoCommit,
         result |-> "none", tried |-> <<>>]

\* tree::BatchWriter::append_record, when the append succeeds.
AppendRecord(t, b, cmd) ==
    /\ tree_log' = [tree_log EXCEPT ![t] = Append(@, cmd)]
    /\ player' = [player EXCEPT ![t][b] =
                     Append(@, [cmd |-> cmd, addr |-> Len(tree_log[t]) + 1])]

\* The mutations appended so far, over all trees and batches.
RECURSIVE Muts(_)
Muts(n) ==
    IF n = 0 THEN 0
    ELSE Len(SelectSeq(tree_log[TreeSeq[n]],
                       LAMBDA c : c.type \in {"Write", "Delete", "DeleteRange"}))
         + Muts(n - 1)

\* The init() calls made on a Db.
InitCalls == 1..MaxInits

\* ------------------------------------------------------- compacting tree
Compactors == 1..MaxCompactors

\* An empty slot of Trees (Option::None).
NoTree == [some |-> FALSE]

\* A tree of a slot, by the versions its index holds for every key.
SlotTree(ix) == [some |-> TRUE, index |-> ix]

EmptyTree == SlotTree([k \in Keys |-> <<>>])

\* Trees::new: only the active tree exists.
NoTrees ==
    [active |-> EmptyTree, compacting |-> NoTree, compacted |-> NoTree,
     compacted_wip |-> NoTree, trash |-> <<>>]

\* Option<usize>::None in Cursor.current; a tree cursor that is not valid.
NoIdx == -1
NoKey == 0

CursorKeys == 1..MaxCursorKey

\* A tree cursor: the keys its snapshot holds and the key it stands on.
TreeCursorOn(keys) == [keys |-> keys, pos |-> NoKey]

\* Cursor { trees: vec![compacting_cursor, compacted_cursor], current: None }
NewCursor(compacting_keys, compacted_keys) ==
    [trees |-> <<TreeCursorOn(compacting_keys), TreeCursorOn(compacted_keys)>>,
     current |-> NoIdx, last |-> "new"]

\* A compact() call that has not been made yet.
NotCalled == [pc |-> "start", commit_limit |-> 0, cursor |-> <<>>, result |-> "none"]

\* ------------------------------------------------------------------ Init
\* The database after Db::new, no log holding a record.
InitDb ==
    /\ initialized = FALSE
    /\ next_batch = 0
    /\ next_batch_commit = 0
    /\ next_commit = 0
    /\ view_commit_limit = 0
    /\ commit_lock = NoBatch
    /\ tree_log = [t \in Trees |-> <<>>]
    /\ commit_log = <<>>
    /\ player = [t \in Trees |-> [b \in Batches |-> <<>>]]
    /\ index = [t \in Trees |-> [k \in Keys |-> <<>>]]
    /\ wb = [b \in Batches |-> NoWb]
    /\ views = {}
    /\ applied = {}
    /\ crashed = <<>>
    /\ init_calls = [c \in InitCalls |-> "start"]

Init ==
    /\ InitDb
    /\ compact_state = "NotCompacting"
    /\ trees = NoTrees
    /\ compactor = [p \in Compactors |-> NotCalled]
    /\ merge_cursor = NewCursor({}, {})

\* --------------------------------------------------------------- Db
\* init() that leaves view_commit_limit as Db::new set it
DbInitLimitUnset ==
    LET init_state == LoaderLoad
    IN  /\ ~initialized
        /\ next_batch' = init_state.next_batch
        /\ next_batch_commit' = init_state.next_batch_commit
        /\ next_commit' = init_state.next_commit
        /\ index' = init_state.index
        /\ initialized' = TRUE
        /\ UNCHANGED <<view_commit_limit, commit_lock, tree_log, commit_log, player, wb,
                       views, applied, crashed, ctVars, init_calls>>

\* Db::init
DbInit ==
    LET init_state == LoaderLoad
    IN  /\ ~initialized
        /\ next_batch' = init_state.next_batch
        /\ next_batch_commit' = init_state.next_batch_commit
        /\ next_commit' = init_state.next_commit
        /\ view_commit_limit' = init_state.next_commit
        /\ index' = init_state.index
        /\ initialized' = TRUE
        /\ UNCHANGED <<commit_lock, tree_log, commit_log, player, wb, views, applied,
                       crashed, ctVars, init_calls>>

\* Db::init up to the suspension inside the loader: the assertion on
\* initialized, which ends the call when it fails.
DbInitBegin(c) ==
    /\ init_calls[c] = "start"
    /\ init_calls' = [init_calls EXCEPT ![c] = IF initialized THEN "asserted" ELSE "loading"]
    /\ UNCHANGED <<initialized, next_batch, next_batch_commit, next_commit,
                   view_commit_limit, commit_lock, tree_log, commit_log, player, index,
                   wb, views, applied, crashed, ctVars>>

\* Db::init from the return of loader::load: `?` on an error, else the four
\* stores and initialized.
DbInitLoaded(c, ok) ==
    LET init_state == LoaderLoad
    IN  /\ init_calls[c] = "loading"
        /\ IF ok
           THEN /\ next_batch' = init_state.next_batch
                /\ next_batch_commit' = init_state.next_batch_commit
                /\ next_commit' = init_state.next_commit
                /\ view_commit_limit' = init_state.next_commit
                /\ index' = init_state.index
                /\ initialized' = TRUE
                /\ init_calls' = [init_calls EXCEPT ![c] = "ok"]
           ELSE /\ init_calls' = [init_calls EXCEPT ![c] = "err"]
                /\ UNCHANGED <<initialized, next_batch, next_batch_commit, next_commit,
                               view_commit_limit, index>>
        /\ UNCHANGED <<commit_lock, tree_log, commit_log, player, wb, views, applied,
                       crashed, ctVars>>

\* fetch_add(1): the counter after the call
FetchAddNothing(n) == n

FetchAdd(n) == n + 1

\* Db::batch
DbBatch ==
    /\ initialized
    /\ next_batch < MaxBatches
    /\ wb' = [wb EXCEPT ![next_batch] = Idle(next_batch)]
    /\ next_batch' = FetchAdd(next_batch)
    /\ UNCHANGED <<initialized, next_batch_commit, next_commit, view_commit_limit,
                   commit_lock, tree_log, commit_log, player, index, views, applied, crashed, ctVars, init_calls>>

\* Db::view
DbView ==
    /\ initialized
    /\ Cardinality(views \cup {view_commit_limit}) <= MaxViews
    /\ views' = views \cup {view_commit_limit}
    /\ UNCHANGED <<initialized, next_batch, next_batch_commit, next_commit,
                   view_commit_limit, commit_lock, tree_log, commit_log, player,
                   index, wb, applied, crashed, ctVars, init_calls>>

\* ------------------------------------------------------ BatchWriter mutators
\* The caller may issue one more mutator on the batch.
CanMutate(b) == wb[b].pc = "idle" /\ Muts(NTrees) < MaxMuts

\* append_record that records the command whether or not the append failed
TryAppendRecordAlwaysRecording(t, b, cmd, ok) ==
    IF ok THEN AppendRecord(t, b, cmd)
    ELSE /\ player' = [player EXCEPT ![t][b] =
                          Append(@, [cmd |-> cmd, addr |-> Len(tree_log[t]) + 1])]
         /\ UNCHANGED tree_log

\* tree::BatchWriter::append_record: a failed append returns the error and
\* leaves the log and the player as they were.
TryAppendRecord(t, b, cmd, ok) ==
    IF ok THEN AppendRecord(t, b, cmd) ELSE UNCHANGED <<tree_log, player>>

\* BatchWriter::write
BwWrite(b, t, k, v, ok) ==
    /\ CanMutate(b)
    /\ TryAppendRecord(t, b, Cmd("Write", b, k, v, 0, 0), ok)
    /\ UNCHANGED <<wb, initialized, next_batch, next_batch_commit, next_commit,
                   view_commit_limit, commit_lock, commit_log, index, views, applied, crashed, ctVars, init_calls>>

\* BatchWriter::delete
BwDelete(b, t, k, ok) ==
    /\ CanMutate(b)
    /\ TryAppendRecord(t, b, Cmd("Delete", b, k, 0, 0, 0), ok)
    /\ UNCHANGED <<wb, initialized, next_batch, next_batch_commit, next_commit,
                   view_commit_limit, commit_lock, commit_log, index, views, applied, crashed, ctVars, init_calls>>

\* BatchWriter::delete_range
BwDeleteRange(b, t, k, end, ok) ==
    /\ CanMutate(b)
    /\ TryAppendRecord(t, b, Cmd("DeleteRange", b, k, 0, end, 0), ok)
    /\ UNCHANGED <<wb, initialized, next_batch, next_batch_commit, next_commit,
                   view_commit_limit, commit_lock, commit_log, index, views, applied, crashed, ctVars, init_calls>>

\* The save-point markers appended so far, over all trees and batches.
RECURSIVE Marks(_)
Marks(n) ==
    IF n = 0 THEN 0
    ELSE Len(SelectSeq(tree_log[TreeSeq[n]],
                       LAMBDA c : c.type \in {"PushSavePoint", "PopSavePoint",
                                              "RollbackSavePoint"}))
         + Marks(n - 1)

\* The caller may issue one more save-point call on the batch.
CanMark(b) == wb[b].pc = "idle" /\ Marks(NTrees) < MaxMarks

\* BatchWriter::push_save_point
BwPushSavePoint(b, t, ok) ==
    /\ CanMark(b)
    /\ TryAppendRecord(t, b, Cmd("PushSavePoint", b, 0, 0, 0, 0), ok)
    /\ UNCHANGED <<wb, initialized, next_batch, next_batch_commit, next_commit,
                   view_commit_limit, commit_lock, commit_log, index, views, applied, crashed, ctVars, init_calls>>

\* BatchWriter::pop_save_point
BwPopSavePoint(b, t, ok) ==
    /\ CanMark(b)
    /\ TryAppendRecord(t, b, Cmd("PopSavePoint", b, 0, 0, 0, 0), ok)
    /\ UNCHANGED <<wb, initialized, next_batch, next_batch_commit, next_commit,
                   view_commit_limit, commit_lock, commit_log, index, views, applied, crashed, ctVars, init_calls>>

\* BatchWriter::rollback_save_point
BwRollbackSavePoint(b, t, ok) ==
    /\ CanMark(b)
    /\ TryAppendRecord(t, b, Cmd("RollbackSavePoint", b, 0, 0, 0, 0), ok)
    /\ UNCHANGED <<wb, initialized, next_batch, next_batch_commit, next_commit,
                   view_commit_limit, commit_lock, commit_log, index, views, applied, crashed, ctVars, init_calls>>

\* --------------------------------------------------- WriteBatch::commit
Tried(type, t, ok) == [type |-> type, tree |-> t, ok |-> ok]

\* The record WriteBatch::commit appends for the next tree: ReadyCommit while
\* no error was seen, AbortCommit afterwards.
RoundCommandAlwaysReady(error) == "ReadyCommit"

RoundCommand(error) == IF error = 0 THEN "ReadyCommit" ELSE "AbortCommit"

\* `if let Some(e) = error { return Err(e) }`
RejectedNever(error) == FALSE

Rejected(error) == error # 0

\* WriteBatch::commit: new_batch_commit_number()
WbCommitBegin(b) ==
    /\ wb[b].pc = "idle"
    /\ next_batch_commit < MaxCalls
    /\ wb' = [wb EXCEPT ![b] = [@ EXCEPT !.pc = "ready", !.bc = next_batch_commit,
                                          !.i = 1, !.error = 0, !.commit = NoCommit,
                                          !.result = "none",
                                          !.tried = <<>>]]
    /\ next_batch_commit' = FetchAdd(next_batch_commit)
    /\ UNCHANGED <<initialized, next_batch, next_commit, view_commit_limit,
                   commit_lock, tree_log, commit_log, player, index, views, applied, crashed, ctVars, init_calls>>

\* WriteBatch::commit: one iteration of the loop over the trees
WbReadyStep(b, ok) ==
    LET w    == wb[b]
        t    == TreeSeq[w.i]
        type == RoundCommand(w.error)
        err  == IF w.error = 0 /\ ~ok THEN w.i ELSE w.error
        w1   == [w EXCEPT !.error = err, !.tried = Append(@, Tried(type, t, ok))]
    IN  /\ w.pc = "ready"
        /\ TryAppendRecord(t, b, Cmd(type, b, 0, 0, 0, w.bc), ok)
        /\ wb' = [wb EXCEPT ![b] =
                    IF w.i < NTrees THEN [w1 EXCEPT !.i = @ + 1]
                    ELSE IF Rejected(err)
                         THEN [w1 EXCEPT !.pc = "idle", !.i = 0, !.result = "err_ready"]
                         ELSE [w1 EXCEPT !.pc = "commit", !.i = 0]]
        /\ UNCHANGED <<initialized, next_batch, next_batch_commit, next_commit,
                       view_commit_limit, commit_lock, commit_log, index, views, applied, crashed, ctVars, init_calls>>

\* ---------------------------------------------------- BatchWriter::commit
\* commit.0.checked_add(1)
NewCommitLimitSame(commit) == commit

NewCommitLimit(commit) == commit + 1

\* The lock and the Commit number are taken, and the limit is stored at once.
BwCommitLockBumping(b) ==
    /\ wb[b].pc = "commit"
    /\ commit_lock = NoBatch
    /\ commit_lock' = b
    /\ wb' = [wb EXCEPT ![b] = [@ EXCEPT !.pc = "write_commit", !.commit = next_commit]]
    /\ next_commit' = FetchAdd(next_commit)
    /\ view_commit_limit' = NewCommitLimit(next_commit)
    /\ UNCHANGED <<initialized, next_batch, next_batch_commit,
                   tree_log, commit_log, player, index, views, applied, crashed, ctVars, init_calls>>

\* The Commit number is taken without waiting for the lock.
BwCommitLockUnguarded(b) ==
    /\ wb[b].pc = "commit"
    /\ commit_lock' = b
    /\ wb' = [wb EXCEPT ![b] = [@ EXCEPT !.pc = "write_commit", !.commit = next_commit]]
    /\ next_commit' = FetchAdd(next_commit)
    /\ UNCHANGED <<initialized, next_batch, next_batch_commit, view_commit_limit,
                   tree_log, commit_log, player, index, views, applied, crashed, ctVars, init_calls>>

\* commit_lock.lock() and next_commit.fetch_add(1)
BwCommitLock(b) ==
    /\ wb[b].pc = "commit"
    /\ commit_lock = NoBatch
    /\ commit_lock' = b
    /\ wb' = [wb EXCEPT ![b] = [@ EXCEPT !.pc = "write_commit", !.commit = next_commit]]
    /\ next_commit' = FetchAdd(next_commit)
    /\ UNCHANGED <<initialized, next_batch, next_batch_commit, view_commit_limit,
                   tree_log, commit_log, player, index, views, applied, crashed, ctVars, init_calls>>

\* Where commit() continues after write_commit: `?` returns on an error.
AfterWriteCommitIgnoringError(ok) == "promote"

AfterWriteCommit(ok) == IF ok THEN "promote" ELSE "idle"

\* write_commit(): the append of the master commit record
BwWriteCommit(b, ok) ==
    LET nxt == AfterWriteCommit(ok)
    IN  /\ wb[b].pc = "write_commit"
        /\ commit_log' = IF ok
                         THEN Append(commit_log, CommitCommand(b, wb[b].bc, wb[b].commit))
                         ELSE commit_log
        /\ IF nxt = "idle"
           THEN /\ commit_lock' = NoBatch
                /\ wb' = [wb EXCEPT ![b] = [@ EXCEPT !.pc = "idle", !.result = "err_master"]]
           ELSE /\ commit_lock' = commit_lock
                /\ wb' = [wb EXCEPT ![b] = [@ EXCEPT !.pc = nxt, !.i = 1]]
        /\ UNCHANGED <<initialized, next_batch, next_batch_commit, next_commit,
                       view_commit_limit, tree_log, player, index, views, applied, crashed, ctVars, init_calls>>

\* The limit is stored inside the loop, with the first tree promoted.
BwCommitToIndexBumping(b) ==
    LET w == wb[b]
        t == TreeSeq[w.i]
    IN  /\ w.pc = "promote"
        /\ index' = [index EXCEPT ![t] = TreeCommit(t, b, w.commit)]
        /\ applied' = applied \cup {<<w.commit, t>>}
        /\ view_commit_limit' = NewCommitLimit(w.commit)
        /\ wb' = [wb EXCEPT ![b] = IF w.i < NTrees THEN [w EXCEPT !.i = @ + 1]
                                   ELSE [w EXCEPT !.pc = "swap", !.i = 0]]
        /\ UNCHANGED <<initialized, next_batch, next_batch_commit, next_commit,
                       commit_lock, tree_log, commit_log, player, views, crashed, ctVars, init_calls>>

\* one iteration of `for (tree, writer) in batch_writers { writer.commit_to_index }`
BwCommitToIndex(b) ==
    LET w == wb[b]
        t == TreeSeq[w.i]
    IN  /\ w.pc = "promote"
        /\ index' = [index EXCEPT ![t] = TreeCommit(t, b, w.commit)]
        /\ applied' = applied \cup {<<w.commit, t>>}
        /\ wb' = [wb EXCEPT ![b] = IF w.i < NTrees THEN [w EXCEPT !.i = @ + 1]
                                   ELSE [w EXCEPT !.pc = "swap", !.i = 0]]
        /\ UNCHANGED <<initialized, next_batch, next_batch_commit, next_commit,
                       view_commit_limit, commit_lock, tree_log, commit_log, player, views, crashed, ctVars, init_calls>>

\* view_commit_limit.swap(new_commit_limit); the lock guard is dropped on return
BwSwapLimit(b) ==
    /\ wb[b].pc = "swap"
    /\ view_commit_limit' = NewCommitLimit(wb[b].commit)
    /\ commit_lock' = NoBatch
    /\ wb' = [wb EXCEPT ![b] = [@ EXCEPT !.pc = "idle", !.result = "ok"]]
    /\ UNCHANGED <<initialized, next_batch, next_batch_commit, next_commit,
                   tree_log, commit_log, player, index, views, applied, crashed, ctVars, init_calls>>

\* ----------------------------------------------------- WriteBatch::abort
\* abort() with the BatchCommit of the batch's previous round
WbAbortBeginReusing(b) ==
    /\ wb[b].pc = "idle"
    /\ next_batch_commit < MaxCalls
    /\ wb' = [wb EXCEPT ![b] = [@ EXCEPT !.pc = "abort",
                                          !.i = 1, !.error = 0, !.commit = NoCommit,
                                          !.result = "none",
                                          !.tried = <<>>]]
    /\ UNCHANGED <<initialized, next_batch, next_batch_commit, next_commit, view_commit_limit,
                   commit_lock, tree_log, commit_log, player, index, views, applied, crashed, ctVars, init_calls>>

\* WriteBatch::abort: new_batch_commit_number()
WbAbortBegin(b) ==
    /\ wb[b].pc = "idle"
    /\ next_batch_commit < MaxCalls
    /\ wb' = [wb EXCEPT ![b] = [@ EXCEPT !.pc = "abort", !.bc = next_batch_commit,
                                          !.i = 1, !.error = 0, !.commit = NoCommit,
                                          !.result = "none",
                                          !.tried = <<>>]]
    /\ next_batch_commit' = FetchAdd(next_batch_commit)
    /\ UNCHANGED <<initialized, next_batch, next_commit, view_commit_limit,
                   commit_lock, tree_log, commit_log, player, index, views, applied, crashed, ctVars, init_calls>>

WbAbortStep(b, ok) ==
    LET w  == wb[b]
        t  == TreeSeq[w.i]
        w1 == [w EXCEPT !.tried = Append(@, Tried("AbortCommit", t, ok))]
    IN  /\ w.pc = "abort"
        /\ TryAppendRecord(t, b, Cmd("AbortCommit", b, 0, 0, 0, w.bc), ok)
        /\ wb' = [wb EXCEPT ![b] = IF w.i < NTrees THEN [w1 EXCEPT !.i = @ + 1]
                                   ELSE [w1 EXCEPT !.pc = "idle", !.i = 0, !.result = "ok"]]
        /\ UNCHANGED <<initialized, next_batch, next_batch_commit, next_commit,
                       view_commit_limit, commit_lock, commit_log, index, views, applied, crashed, ctVars, init_calls>>

\* ----------------------------------------------------- WriteBatch::close
\* One iteration of the loop: Close is appended, or the player's state for
\* the batch is dropped by emergency_close; the player forgets a closed batch.
WbCloseStep(b, ok) ==
    LET w == wb[b]
        n == IF w.pc = "idle" THEN 1 ELSE w.i
        t == TreeSeq[n]
    IN  /\ w.pc \in {"idle", "close"}
        /\ tree_log' = IF ok THEN [tree_log EXCEPT ![t] = Append(@, Cmd("Close", b, 0, 0, 0, 0))]
                             ELSE tree_log
        /\ player' = [player EXCEPT ![t][b] = <<>>]
        /\ wb' = [wb EXCEPT ![b] = IF n < NTrees THEN [w EXCEPT !.pc = "close", !.i = n + 1]
                                   ELSE [w EXCEPT !.pc = "closed", !.i = 0]]
        /\ UNCHANGED <<initialized, next_batch, next_batch_commit, next_commit,
                       view_commit_limit, commit_lock, commit_log, index, views, applied, crashed, ctVars, init_calls>>

\* ------------------------------------------------------------------ crash
\* The mutations in the tree logs that no master commit record covers.
Uncommitted ==
    UNION {{<<t, m>> : m \in {n \in 1..Len(tree_log[t]) :
                                /\ IsMutationCmd(tree_log[t][n])
                                /\ \A r \in CommitRecs : n \notin Promoted(t, r)}}
           : t \in Trees}

\* The process dies at any point and a new one opens the same logs: Db::new
\* over the tree logs and the commit log, with fresh players and indexes.
Crash ==
    /\ initialized
    /\ Len(crashed) < MaxCrashes
    /\ crashed' = Append(crashed, Uncommitted)
    /\ initialized' = FALSE
    /\ next_batch' = 0
    /\ next_batch_commit' = 0
    /\ next_commit' = 0
    /\ view_commit_limit' = 0
    /\ commit_lock' = NoBatch
    /\ player' = [t \in Trees |-> [b \in Batches |-> <<>>]]
    /\ index' = [t \in Trees |-> [k \in Keys |-> <<>>]]
    /\ wb' = [b \in Batches |-> NoWb]
    /\ views' = {}
    /\ applied' = {}
    /\ init_calls' = [c \in InitCalls |-> "start"]
    /\ UNCHANGED <<tree_log, commit_log, ctVars>>

\* ---------------------------------------------- CompactingTree::compact
\* A version of a key in a slot tree: the status of index.rs with the value
\* the log holds at its address.
Version(commit, status, value) == [commit |-> commit, status |-> status, value |-> value]

\* The highest commit applied to a tree (0 for a tree without commits).
RECURSIVE MaxCommit(_, _)
MaxCommit(h, m) ==
    IF h = <<>> THEN m
    ELSE MaxCommit(Tail(h), IF Head(h).commit > m THEN Head(h).commit ELSE m)

RECURSIVE LastCommitOver(_, _)
LastCommitOver(tree, ks) ==
    IF ks = {} THEN 0
    ELSE LET k == CHOOSE x \in ks : TRUE
             rest == LastCommitOver(tree, ks \ {k})
         IN  MaxCommit(tree.index[k], rest)

LastCommit(tree) == LastCommitOver(tree, Keys)

\* Tree::cursor(commit_limit): the tree as a view pinned at commit_limit sees it.
TreeCursor(tree, commit_limit) == [tree |-> tree, commit_limit |-> commit_limit]

\* The versions of k a tree cursor can see.
CursorVisible(tc, k) ==
    SelectSeq(tc.tree.index[k], LAMBDA e : e.commit < tc.commit_limit)

\* The version of k the merge cursor stands on: of the constituent cursors
\* that hold k, the first one (the newer source), at its latest version.
MergeSources(cursor, k) == {n \in 1..Len(cursor) : CursorVisible(cursor[n], k) # <<>>}

MergeLatest(cursor, k) ==
    LET src == MergeSources(cursor, k)
        n   == CHOOSE x \in src : \A y \in src : x <= y
        h   == CursorVisible(cursor[n], k)
    IN  h[Len(h)]

\* What the merge writes to compacted_wip for k: the latest visible Written
\* value, under the single commit of the compacted log; nothing otherwise.
Merged(cursor, k) ==
    IF MergeSources(cursor, k) = {} THEN <<>>
    ELSE LET e == MergeLatest(cursor, k)
         IN  IF e.status = "Written" THEN <<Version(0, "Written", e.value)>> ELSE <<>>

\* Claiming that does not look at the state
CompactClaimUnchecked(p) ==
    /\ compactor[p].pc = "start"
    /\ compact_state' = "Compacting"
    /\ compactor' = [compactor EXCEPT ![p].pc = "rotate"]
    /\ UNCHANGED <<trees, dbVars, merge_cursor>>

\* Claim the compaction routine, under the compact_state mutex.
CompactClaim(p) ==
    /\ compactor[p].pc = "start"
    /\ IF compact_state = "NotCompacting"
       THEN /\ compact_state' = "Compacting"
            /\ compactor' = [compactor EXCEPT ![p].pc = "rotate"]
       ELSE /\ compactor' = [compactor EXCEPT ![p].pc = "done", ![p].result = "false"]
            /\ UNCHANGED compact_state
    /\ UNCHANGED <<trees, dbVars, merge_cursor>>

\* Under the trees write lock: the two assertions, then
\* move_active_tree_to_compacting and create_compacted_wip_tree, each of
\* which may fail.  A failed assertion unwinds past the reset of compact_state.
CompactRotate(p, outcome) ==
    /\ compactor[p].pc = "rotate"
    /\ IF trees.compacting.some \/ trees.compacted_wip.some
       THEN /\ compactor' = [compactor EXCEPT ![p].pc = "panicked"]
            /\ UNCHANGED trees
       ELSE CASE outcome = "move_err" ->
                    /\ compactor' = [compactor EXCEPT ![p].pc = "reset", ![p].result = "err"]
                    /\ UNCHANGED trees
              [] outcome = "create_err" ->
                    /\ trees' = [trees EXCEPT !.compacting = trees.active,
                                              !.active = EmptyTree]
                    /\ compactor' = [compactor EXCEPT ![p].pc = "reset", ![p].result = "err"]
              [] OTHER ->
                    /\ trees' = [trees EXCEPT !.compacting = trees.active,
                                              !.active = EmptyTree,
                                              !.compacted_wip = EmptyTree]
                    /\ compactor' = [compactor EXCEPT ![p].pc = "wait"]
    /\ UNCHANGED <<compact_state, dbVars, merge_cursor>>

\* wait_for_all_writes_to_compacting_tree, then commit_limit = last_commit + 1.
CompactWait(p, ok) ==
    /\ compactor[p].pc = "wait"
    /\ IF ok
       THEN compactor' = [compactor EXCEPT ![p].pc = "open",
                              ![p].commit_limit = LastCommit(trees.compacting) + 1]
       ELSE compactor' = [compactor EXCEPT ![p].pc = "reset", ![p].result = "err"]
    /\ UNCHANGED <<compact_state, trees, dbVars, merge_cursor>>

\* Under the trees read lock: the two tree cursors of the merge cursor, both
\* opened on trees.compacting.
CompactOpenCursors(p) ==
    /\ compactor[p].pc = "open"
    /\ LET commit_limit == compactor[p].commit_limit
           compacting_cursor == TreeCursor(trees.compacting, commit_limit)
           compacted_cursor  == TreeCursor(trees.compacting, commit_limit)
       IN  compactor' = [compactor EXCEPT ![p].pc = "merge",
                             ![p].cursor = <<compacting_cursor, compacted_cursor>>]
    /\ UNCHANGED <<compact_state, trees, dbVars, merge_cursor>>

\* The merge streamed into compacted_wip; a failed append ends the compaction.
CompactMerge(p, ok) ==
    /\ compactor[p].pc = "merge"
    /\ IF ok
       THEN /\ trees' = [trees EXCEPT !.compacted_wip =
                             SlotTree([k \in Keys |-> Merged(compactor[p].cursor, k)])]
            /\ compactor' = [compactor EXCEPT ![p].pc = "promote"]
       ELSE /\ compactor' = [compactor EXCEPT ![p].pc = "reset", ![p].result = "err"]
            /\ UNCHANGED trees
    /\ UNCHANGED <<compact_state, dbVars, merge_cursor>>

\* Under the trees write lock: compacted and compacting move to trash,
\* compacted_wip becomes compacted.
CompactPromote(p) ==
    /\ compactor[p].pc = "promote"
    /\ trees' = [trees EXCEPT
                    !.trash = @ \o (IF trees.compacted.some THEN <<trees.compacted>> ELSE <<>>)
                                \o <<trees.compacting>>,
                    !.compacted = trees.compacted_wip,
                    !.compacting = NoTree,
                    !.compacted_wip = NoTree]
    /\ compactor' = [compactor EXCEPT ![p].pc = "reset", ![p].result = "true"]
    /\ UNCHANGED <<compact_state, dbVars, merge_cursor>>

\* Back to NotCompacting; compact() returns r.
CompactReset(p) ==
    /\ compactor[p].pc = "reset"
    /\ compact_state' = "NotCompacting"
    /\ compactor' = [compactor EXCEPT ![p].pc = "done"]
    /\ UNCHANGED <<trees, dbVars, merge_cursor>>

\* -------------------------------------------------- compacting_tree::Cursor
\* tree::Cursor, by the keys of its snapshot: seek_first, valid, key, next.
TcSeekFirst(tc) ==
    [tc EXCEPT !.pos = IF tc.keys = {} THEN NoKey
                       ELSE CHOOSE k \in tc.keys : \A j \in tc.keys : k <= j]

TcValid(tc) == tc.pos # NoKey

TcKey(tc) == tc.pos

TcNext(tc) ==
    LET after == {k \in tc.keys : k > tc.pos}
    IN  [tc EXCEPT !.pos = IF after = {} THEN NoKey
                           ELSE CHOOSE k \in after : \A j \in after : k <= j]

\* Cursor::valid and Cursor::key
CursorValid(c) == c.current # NoIdx

CursorKey(c) == TcKey(c.trees[c.current + 1])

\* `if key <= *min_key`
KeyLessOrEqual(key, min_key) == key <= min_key

\* `if key < *min_key`
KeyLess(key, min_key) == key < min_key

NoMin == [some |-> FALSE]

\* The loop of seek_first over the tree cursors from index idx on:
\* min_key_idx after the last iteration.
RECURSIVE MinKeyIdx(_, _, _)
MinKeyIdx(trs, idx, min_key_idx) ==
    IF idx >= Len(trs) THEN min_key_idx
    ELSE LET tree == trs[idx + 1]
             key  == TcKey(tree)
             nxt  == IF TcValid(tree)
                     THEN IF min_key_idx.some
                          THEN IF KeyLess(key, min_key_idx.key)
                               THEN [some |-> TRUE, key |-> key, idx |-> idx]
                               ELSE min_key_idx
                          ELSE [some |-> TRUE, key |-> key, idx |-> idx]
                     ELSE min_key_idx
         IN  MinKeyIdx(trs, idx + 1, nxt)

\* Cursor::seek_first
CursorSeekFirst ==
    LET trs == [n \in 1..Len(merge_cursor.trees) |-> TcSeekFirst(merge_cursor.trees[n])]
        min_key_idx == MinKeyIdx(trs, 0, NoMin)
    IN  /\ merge_cursor' = [trees |-> trs,
                            current |-> IF min_key_idx.some THEN min_key_idx.idx
                                        ELSE merge_cursor.current,
                            last |-> "seek_first"]
        /\ UNCHANGED <<compact_state, trees, compactor, dbVars>>

\* Cursor::next: the tree cursors that stand on the current key advance, and
\* the smallest key is picked again, the earlier tree cursor on equal keys.
CursorNext ==
    LET key == CursorKey(merge_cursor)
        trs == [n \in 1..Len(merge_cursor.trees) |->
                   IF TcValid(merge_cursor.trees[n]) /\ TcKey(merge_cursor.trees[n]) = key
                   THEN TcNext(merge_cursor.trees[n])
                   ELSE merge_cursor.trees[n]]
        min_key_idx == MinKeyIdx(trs, 0, NoMin)
    IN  /\ CursorValid(merge_cursor)
        /\ merge_cursor' = [trees |-> trs,
                            current |-> IF min_key_idx.some THEN min_key_idx.idx ELSE NoIdx,
                            last |-> "next"]
        /\ UNCHANGED <<compact_state, trees, compactor, dbVars>>

\* ------------------------------------------------------------------ Next
\* The Database with its BatchWriters and ViewReaders, committing through
\* WriteBatch::commit.
Next ==
    \/ DbInit
    \/ DbBatch
    \/ DbView
    \/ \E b \in Batches, t \in Trees, k \in Keys, v \in Values, ok \in BOOLEAN :
          BwWrite(b, t, k, v, ok)
    \/ \E b \in Batches, t \in Trees, k \in Keys, ok \in BOOLEAN :
          BwDelete(b, t, k, ok)
    \/ \E b \in Batches : WbCommitBegin(b)
    \/ \E b \in Batches, ok \in BOOLEAN : WbReadyStep(b, ok)
    \/ \E b \in Batches : BwCommitLock(b)
    \/ \E b \in Batches, ok \in BOOLEAN : BwWriteCommit(b, ok)
    \/ \E b \in Batches : BwCommitToIndex(b)
    \/ \E b \in Batches : BwSwapLimit(b)

Spec == Init /\ [][Next]_vars

\* The WriteBatch facade: commit(), abort() and close() on every batch.  What
\* a batch writes does not enter the two-phase protocol: the batches write
\* one value to the first tree.
NextFacade ==
    \/ DbInit
    \/ DbBatch
    \/ \E b \in Batches, k \in Keys, ok \in BOOLEAN :
          BwWrite(b, TreeSeq[1], k, 1, ok)
    \/ \E b \in Batches : WbCommitBegin(b)
    \/ \E b \in Batches, ok \in BOOLEAN : WbReadyStep(b, ok)
    \/ \E b \in Batches : BwCommitLock(b)
    \/ \E b \in Batches, ok \in BOOLEAN : BwWriteCommit(b, ok)
    \/ \E b \in Batches : BwCommitToIndex(b)
    \/ \E b \in Batches : BwSwapLimit(b)
    \/ \E b \in Batches : WbAbortBegin(b)
    \/ \E b \in Batches, ok \in BOOLEAN : WbAbortStep(b, ok)
    \/ \E b \in Batches, ok \in BOOLEAN : WbCloseStep(b, ok)

SpecFacade == Init /\ [][NextFacade]_vars

\* The ReadyCommit and AbortCommit records in the tree logs, over all runs.
RECURSIVE RoundRecs(_)
RoundRecs(n) ==
    IF n = 0 THEN 0
    ELSE Len(SelectSeq(tree_log[TreeSeq[n]],
                       LAMBDA c : c.type \in {"ReadyCommit", "AbortCommit"}))
         + RoundRecs(n - 1)

\* No WriteBatch is inside commit(): each has returned from a call, if any.
Quiescent ==
    \A b \in Batches :
        wb[b].pc = "none" \/ (wb[b].pc = "idle" /\ wb[b].result # "none")

\* Crashes and recoveries: batches write one value to the first tree and
\* commit, the process dies at any step, and init() runs the loader over the
\* logs left behind.  The counters restart from the loader's seeds, so the
\* commit() calls are bounded by the records they left in the logs; a batch
\* is opened once the batches before it have returned from a commit().
NextRecovery ==
    \/ DbInit
    \/ Quiescent /\ DbBatch
    \/ \E b \in Batches, k \in Keys, ok \in BOOLEAN :
          BwWrite(b, TreeSeq[1], k, 1, ok)
    \/ \E b \in Batches : RoundRecs(NTrees) < MaxCalls * NTrees /\ WbCommitBegin(b)
    \/ \E b \in Batches, ok \in BOOLEAN : WbReadyStep(b, ok)
    \/ \E b \in Batches : BwCommitLock(b)
    \/ \E b \in Batches, ok \in BOOLEAN : BwWriteCommit(b, ok)
    \/ \E b \in Batches : BwCommitToIndex(b)
    \/ \E b \in Batches : BwSwapLimit(b)
    \/ Crash

SpecRecovery == Init /\ [][NextRecovery]_vars

\* The batch has not been through a commit() call yet.
Fresh(b) == wb[b].result = "none"

\* Save points: one batch issues mutators and save-point calls on the first
\* tree and then commits, retrying when the master append fails.
NextSavePoint ==
    \/ DbInit
    \/ next_batch = 0 /\ DbBatch
    \/ \E b \in Batches, k \in Keys, ok \in BOOLEAN :
          Fresh(b) /\ BwWrite(b, TreeSeq[1], k, 1, ok)
    \/ \E b \in Batches, k \in Keys, ok \in BOOLEAN :
          Fresh(b) /\ BwDelete(b, TreeSeq[1], k, ok)
    \/ \E b \in Batches, k \in Keys, end \in 1..(MaxKey + 1), ok \in BOOLEAN :
          Fresh(b) /\ BwDeleteRange(b, TreeSeq[1], k, end, ok)
    \/ \E b \in Batches, ok \in BOOLEAN :
          Fresh(b) /\ BwPushSavePoint(b, TreeSeq[1], ok)
    \/ \E b \in Batches, ok \in BOOLEAN :
          Fresh(b) /\ BwPopSavePoint(b, TreeSeq[1], ok)
    \/ \E b \in Batches, ok \in BOOLEAN :
          Fresh(b) /\ BwRollbackSavePoint(b, TreeSeq[1], ok)
    \/ \E b \in Batches : wb[b].result # "ok" /\ WbCommitBegin(b)
    \/ \E b \in Batches : WbReadyStep(b, TRUE)
    \/ \E b \in Batches : BwCommitLock(b)
    \/ \E b \in Batches, ok \in BOOLEAN : BwWriteCommit(b, ok)
    \/ \E b \in Batches : BwCommitToIndex(b)
    \/ \E b \in Batches : BwSwapLimit(b)

SpecSavePoint == Init /\ [][NextSavePoint]_vars

\* Concurrent compact() calls on a compacting tree whose active tree holds up
\* to MaxHist versions of every key and whose compacted tree, if it exists,
\* holds at most a value per key.
StatusValues ==
    {[status |-> "Written", value |-> v] : v \in Values}
        \cup {[status |-> "Deleted", value |-> 0]}

Histories ==
    UNION {{[i \in 1..n |-> Version(i - 1, f[i].status, f[i].value)] :
                f \in [1..n -> StatusValues]} : n \in 0..MaxHist}

ActiveTrees == {SlotTree(ix) : ix \in [Keys -> Histories]}

CompactedTrees ==
    {NoTree} \cup
    {SlotTree(ix) : ix \in [Keys -> {<<>>} \cup {<<Version(0, "Written", v)>> : v \in Values}]}

InitCompact ==
    /\ InitDb
    /\ compact_state = "NotCompacting"
    /\ \E a \in ActiveTrees, c \in CompactedTrees :
           trees = [NoTrees EXCEPT !.active = a, !.compacted = c]
    /\ compactor = [p \in Compactors |-> NotCalled]
    /\ merge_cursor = NewCursor({}, {})

NextCompact ==
    \/ \E p \in Compactors : CompactClaim(p)
    \/ \E p \in Compactors, outcome \in {"ok", "move_err", "create_err"} :
           CompactRotate(p, outcome)
    \/ \E p \in Compactors, ok \in BOOLEAN : CompactWait(p, ok)
    \/ \E p \in Compactors : CompactOpenCursors(p)
    \/ \E p \in Compactors, ok \in BOOLEAN : CompactMerge(p, ok)
    \/ \E p \in Compactors : CompactPromote(p)
    \/ \E p \in Compactors : CompactReset(p)

SpecCompact == InitCompact /\ [][NextCompact]_vars

\* A merge cursor over two tree cursors, each over any set of keys, sought to
\* the first key and advanced.
InitCursor ==
    /\ InitDb
    /\ compact_state = "NotCompacting"
    /\ trees = NoTrees
    /\ compactor = [p \in Compactors |-> NotCalled]
    /\ \E compacting_keys \in SUBSET CursorKeys, compacted_keys \in SUBSET CursorKeys :
           merge_cursor = NewCursor(compacting_keys, compacted_keys)

NextCursor ==
    \/ CursorSeekFirst
    \/ CursorNext

SpecCursor == InitCursor /\ [][NextCursor]_vars

\* Several init() calls on one Db, each suspended inside the loader, with
\* batches and views opened, and the first batch committed, meanwhile.
NextInit ==
    \/ \E c \in InitCalls : DbInitBegin(c)
    \/ \E c \in InitCalls, ok \in BOOLEAN : DbInitLoaded(c, ok)
    \/ DbBatch
    \/ DbView
    \/ WbCommitBegin(0)
    \/ WbReadyStep(0, TRUE)
    \/ BwCommitLock(0)
    \/ BwWriteCommit(0, TRUE)
    \/ BwCommitToIndex(0)
    \/ BwSwapLimit(0)

SpecInit == Init /\ [][NextInit]_vars

\* ================================================================ claims
\* The history entries of tree t, over all keys.
Entries(t) == UNION {{index[t][k][n] : n \in 1..Len(index[t][k])} : k \in Keys}

\* ---------------------------------------------------------------- C1
\* C1: snapshot isolation. Whatever step is taken (a commit of any batch,
\* in any of its phases), every read through an existing view returns what
\* it returned before the step, and a value it returns was written by a batch
\* whose master commit record carries a Commit number below the view's limit.
C1_SnapshotIsolation ==
    [][\A v \in views, t \in Trees, k \in Keys :
          LET after == TreeReadIn(index'[t], tree_log'[t], v, k)
              e     == IndexRead(index'[t][k], v)
          IN  /\ after = ViewRead(v, t, k)
              /\ e.some =>
                    \E r \in {commit_log'[n] : n \in 1..Len(commit_log')} :
                        /\ r.commit < v
                        /\ r.batch = tree_log'[t][e.entry.addr].batch]_vars

\* A view that reads a value of a key to which a later commit (numbered at
\* or above the view's limit) has added a newer version.
C1_Witness ==
    \E v \in views, t \in Trees, k \in Keys :
        /\ ViewRead(v, t, k).some
        /\ \E e \in Entries(t) : e.commit >= v /\ tree_log[t][e.addr].key = k

\* ---------------------------------------------------------------- C2
\* The read the claim describes: the value of the newest history entry below
\* the limit when it is Written, None when it is Deleted or there is none.
ExpectedRead(t, c, k) ==
    LET h   == index[t][k]
        vis == {n \in 1..Len(h) : h[n].commit < c}
    IN  IF vis = {} THEN ReadNone
        ELSE LET e == h[Max(vis)]
             IN  IF e.status = "Written" THEN ReadOk(tree_log[t][e.addr].value)
                 ELSE ReadNone

\* C2: a view's read of a key returns Some(value of the newest entry below
\* the view's limit) when that entry is Written, and Ok(None) when it is
\* Deleted or when there is no entry below the limit.
C2_ReadIsNewestVisible ==
    \A v \in views, t \in Trees, k \in Keys : ViewRead(v, t, k) = ExpectedRead(t, v, k)

\* ---------------------------------------------------------------- C3
\* The view with limit v observes, in tree t, the writes of the commit c.
Observes(v, t, c) == c < v /\ \E e \in Entries(t) : e.commit = c

\* The commit recorded by r promoted a write or a delete of a key in tree t.
WroteTo(t, r) ==
    \E m \in Promoted(t, r) : tree_log[t][m].type \in {"Write", "Delete"}

\* C3: atomic multi-tree visibility. For every master commit record whose
\* batch wrote to two trees, every view observes the commit's writes in both
\* trees or in neither, also while the commit is promoting tree by tree.
C3_AtomicVisibility ==
    \A v \in views, r \in CommitRecs, t1 \in Trees, t2 \in Trees :
        (WroteTo(t1, r) /\ WroteTo(t2, r))
            => (Observes(v, t1, r.commit) <=> Observes(v, t2, r.commit))

\* A view exists while a commit of a batch that wrote to both trees has
\* promoted the first tree and not yet the second.
C3_Witness ==
    \E b \in Batches :
        /\ wb[b].pc = "promote" /\ wb[b].i = 2
        /\ views # {}
        /\ \A t \in Trees : Replay(player[t][b]) # <<>>
        /\ \E e \in Entries(TreeSeq[1]) : e.commit = wb[b].commit

\* ---------------------------------------------------------------- C4
C4_State ==
    /\ \A b \in Batches :
          wb[b].pc = "swap" => view_commit_limit < NewCommitLimit(wb[b].commit)
    /\ \A m \in 1..Len(commit_log), n \in 1..Len(commit_log) :
          commit_log[m].commit = commit_log[n].commit => m = n

\* C4: view_commit_limit never decreases, the assertion old_commit_limit <
\* new_commit_limit holds at every swap, and no two master commit records
\* carry the same Commit number.
C4_LimitMonotonicCommitsUnique ==
    [](C4_State) /\ [][view_commit_limit' >= view_commit_limit]_vars

\* A commit whose master append failed was followed by a successful one:
\* the limit went from 0 to 2.
C4_Witness ==
    /\ view_commit_limit = 2
    /\ Len(commit_log) = 1

\* ---------------------------------------------------------------- C5
AppliedCommits == {a[1] : a \in applied}

\* C5: while no commit() holds the commit lock, view_commit_limit is the
\* largest Commit number promoted to the indexes plus one, and 0 when no
\* commit was promoted.
C5_LimitIsMaxAppliedPlusOne ==
    commit_lock = NoBatch =>
        view_commit_limit = IF AppliedCommits = {} THEN 0 ELSE Max(AppliedCommits) + 1

\* Commit 0 was applied and the commit after it failed its master append.
C5_Witness ==
    /\ commit_lock = NoBatch
    /\ AppliedCommits = {0}
    /\ next_commit = 2
    /\ \E b \in Batches : wb[b].result = "err_master"

\* ---------------------------------------------------------------- C6
\* C6: whenever view_commit_limit is c + 1, the master commit record of c is
\* in the commit log and c was promoted to every tree; and every history
\* entry below the limit of a view has its master commit record.
C6_VisibleAfterDurable ==
    /\ view_commit_limit > 0 =>
          /\ \E r \in CommitRecs : r.commit = view_commit_limit - 1
          /\ \A t \in Trees : <<view_commit_limit - 1, t>> \in applied
    /\ \A v \in views, t \in Trees : \A e \in Entries(t) :
          e.commit < v => \E r \in CommitRecs : r.commit = e.commit

\* A view whose limit lets it see a committed entry.
C6_Witness ==
    \E v \in views, t \in Trees : \E e \in Entries(t) : e.commit < v

\* ---------------------------------------------------------------- C7
\* The batch b has one master commit record, and its call has returned Ok.
CommittedOnce(b) ==
    /\ Cardinality({r \in CommitRecs : r.batch = b}) = 1
    /\ wb[b].pc = "idle"
    /\ wb[b].result = "ok"

C7_State ==
    /\ \A t \in Trees : \A e \in Entries(t) : \E r \in CommitRecs : r.commit = e.commit
    /\ \A b \in Batches : CommittedOnce(b) =>
          \A r \in CommitRecs, t \in Trees : r.batch = b =>
              \A m \in Promoted(t, r) :
                  Cardinality({<<k, n>> \in Keys \X (1..Len(tree_log[t])) :
                                  /\ n <= Len(index[t][k])
                                  /\ index[t][k][n].addr = m}) = 1

C7_Step ==
    \A b \in Batches :
        (wb[b].pc = "write_commit" /\ Len(commit_log') = Len(commit_log)
            /\ wb'[b] # wb[b]) =>
            /\ wb'[b].pc = "idle"
            /\ wb'[b].result = "err_master"
            /\ index' = index
            /\ view_commit_limit' = view_commit_limit

\* C7: a commit whose master append fails returns the error and leaves the
\* indexes and view_commit_limit as they were, so that no history entry
\* carries its Commit number; and when the batch ends up with one master
\* commit record (the retry), each of its mutations is in the index once.
C7_MasterFailureAborts ==
    [](C7_State) /\ [][C7_Step]_vars

\* A batch with a write whose first commit failed at the master append and
\* whose retry, under Commit 1, succeeded.
C7_Witness ==
    \E b \in Batches :
        /\ CommittedOnce(b)
        /\ next_commit = 2
        /\ \E r \in CommitRecs : r.batch = b /\ r.commit = 1 /\ r.batch_commit = 1
        /\ \E t \in Trees, r \in CommitRecs : Promoted(t, r) # {}

\* ---------------------------------------------------------------- C8
C8_State ==
    \A b \in Batches :
        wb[b].result = "err_ready" =>
            LET w == wb[b]
            IN  /\ w.error \in 1..NTrees
                /\ Len(w.tried) = NTrees
                /\ \A n \in 1..NTrees :
                      /\ w.tried[n].tree = TreeSeq[n]
                      /\ w.tried[n].type =
                            (IF n <= w.error THEN "ReadyCommit" ELSE "AbortCommit")
                      /\ n < w.error => w.tried[n].ok
                      /\ n = w.error => ~w.tried[n].ok
                /\ w.commit = NoCommit
                /\ \A r \in CommitRecs : ~(r.batch = b /\ r.batch_commit = w.bc)

C8_Step ==
    \A b \in Batches :
        (wb[b].pc = "ready" /\ wb'[b] # wb[b]) =>
            /\ wb'[b].pc = "commit" => wb'[b].error = 0
            /\ UNCHANGED <<next_commit, commit_log, index, view_commit_limit>>

\* C8: when a ReadyCommit append fails in WriteBatch::commit, the trees after
\* the failing one get an AbortCommit attempt each and no ReadyCommit, the
\* call returns the ReadyCommit error whatever the aborts did, and the call
\* takes no Commit number, appends no master commit record and changes no
\* index and not view_commit_limit.
C8_ReadyFailureAborts ==
    [](C8_State) /\ [][C8_Step]_vars

\* ReadyCommit failed on the first tree and the AbortCommit on the second
\* tree failed too.
C8_Witness ==
    \E b \in Batches :
        /\ wb[b].result = "err_ready"
        /\ wb[b].error = 1
        /\ ~wb[b].tried[2].ok

\* ---------------------------------------------------------------- C9
C9_State ==
    \A r \in CommitRecs, t \in Trees :
        /\ RoundPos(t, "ReadyCommit", r.batch, r.batch_commit) # {}
        /\ RoundPos(t, "AbortCommit", r.batch, r.batch_commit) = {}

C9_Step ==
    \A n \in (Len(commit_log) + 1)..Len(commit_log') : \A t \in Trees :
        RoundPos(t, "ReadyCommit", commit_log'[n].batch, commit_log'[n].batch_commit) # {}

\* C9: for every master commit record Commit{b, bc, c}, every tree log holds
\* ReadyCommit{b, bc}, already at the step that appends the master record,
\* and no tree log holds AbortCommit{b, bc}.
C9_CommitHasReadyNoAbort ==
    [](C9_State) /\ [][C9_Step]_vars

\* A batch was committed after a round of its own that was aborted.
C9_Witness ==
    \E r \in CommitRecs, t \in Trees : \E n \in 1..Len(tree_log[t]) :
        /\ tree_log[t][n].type = "AbortCommit"
        /\ tree_log[t][n].batch = r.batch

\* ---------------------------------------------------------------- C10
\* C10: the commit log holds at most one master commit record per batch.
C10_OneMasterCommitPerBatch ==
    \A m \in 1..Len(commit_log), n \in 1..Len(commit_log) :
        commit_log[m].batch = commit_log[n].batch => m = n

\* ---------------------------------------------------------------- C11
\* The mutations that were uncommitted work at some crash.
Lost == UNION {crashed[n] : n \in 1..Len(crashed)}

\* C11: in a database recovered by init() after a crash, no mutation that
\* was uncommitted work at a crash (its batch had no master commit record
\* covering it) has an index entry, so no view sees it; and every mutation
\* covered by a master commit record Commit{b, bc, c} below the limit has its
\* index entry at c, so every view with a limit above c sees it.
C11_RecoveryDiscardsUncommitted ==
    (initialized /\ crashed # <<>>) =>
        /\ \A t \in Trees : \A e \in Entries(t) : <<t, e.addr>> \notin Lost
        /\ \A r \in CommitRecs, t \in Trees :
              r.commit < view_commit_limit =>
                  \A m \in Promoted(t, r) :
                      <<t, m>> \notin Lost =>
                          \E e \in Entries(t) : e.addr = m /\ e.commit = r.commit

\* ---------------------------------------------------------------- C19
\* The records of the tree logs.
TreeRecs == UNION {{tree_log[t][n] : n \in 1..Len(tree_log[t])} : t \in Trees}

C19_Step ==
    (initialized /\ initialized') =>
        /\ next_batch' # next_batch =>
              \A c \in TreeRecs : c.batch # next_batch
        /\ next_batch_commit' # next_batch_commit =>
              \A c \in TreeRecs :
                  c.type \in {"ReadyCommit", "AbortCommit"} =>
                      c.batch_commit # next_batch_commit
        /\ next_commit' # next_commit =>
              \A r \in CommitRecs : r.commit # next_commit

\* C19: over crashes and recoveries, the Batch number batch() hands out is
\* carried by no record of any tree log, the BatchCommit a round draws is
\* carried by no ReadyCommit or AbortCommit record, and the Commit number
\* commit() draws is carried by no master commit record.
C19_IdentifiersUniqueAcrossRecovery ==
    [][C19_Step]_vars

\* ---------------------------------------------------------------- C12
\* init() has returned and nothing was done since.
JustInitialized == initialized /\ \A b \in Batches : wb[b].pc = "none"

\* What init() leaves in the Db is what the loader makes of the logs.
C12_State ==
    JustInitialized =>
        LET init_state == LoaderLoad
        IN  /\ next_batch = init_state.next_batch
            /\ next_batch_commit = init_state.next_batch_commit
            /\ next_commit = init_state.next_commit
            /\ view_commit_limit = init_state.next_commit
            /\ index = init_state.index

\* A step that appends to a tree log but no master commit record leaves the
\* loader's result as it was.
C12_Step ==
    commit_log' = commit_log /\ tree_log' # tree_log => LoaderLoad' = LoaderLoad

\* C12: a step that appends no master commit record (the writes of a batch,
\* its ReadyCommit and AbortCommit records, a failed master append) leaves
\* the counters and indexes that init() would produce from the logs as
\* they were; and what init() produces is determined by the logs, so two
\* init() runs on the same logs agree.
C12_RecoveryIdempotent == [](C12_State) /\ [][C12_Step]_vars

\* A recovered database whose logs hold a committed batch and, after it, a
\* batch with a write and its ReadyCommit in every tree but no master commit
\* record.
C12_Witness ==
    /\ JustInitialized
    /\ crashed # <<>>
    /\ commit_log # <<>>
    /\ \E c \in TreeRecs :
          /\ c.type = "ReadyCommit"
          /\ \A r \in CommitRecs : r.batch_commit # c.batch_commit
          /\ \A t \in Trees : RoundPos(t, "ReadyCommit", c.batch, c.batch_commit) # {}
          /\ \E m \in 1..Len(tree_log[TreeSeq[1]]) :
                /\ tree_log[TreeSeq[1]][m].type = "Write"
                /\ tree_log[TreeSeq[1]][m].batch = c.batch
                /\ \E n \in RoundPos(TreeSeq[1], "ReadyCommit", c.batch, c.batch_commit) :
                      m < n
                /\ \A e \in Entries(TreeSeq[1]) : e.addr # m

\* ---------------------------------------------------------------- C13
\* The save-point depth after the recording q, starting from depth d; -1 when
\* a pop or a rollback in q has no push in q before it.
RECURSIVE DepthAfter(_, _)
DepthAfter(q, d) ==
    IF d < 0 \/ q = <<>> THEN d
    ELSE LET type == Head(q).cmd.type
         IN  DepthAfter(Tail(q),
                        CASE type = "PushSavePoint" -> d + 1
                          [] type \in {"PopSavePoint", "RollbackSavePoint"} -> d - 1
                          [] OTHER -> d)

\* The save points of q are matched within q.
WellNested(q) == DepthAfter(q, 0) = 0

\* The recording p without the entries at the positions S.
Without(p, S) ==
    LET at   == [n \in 1..Len(p) |-> [e |-> p[n], n |-> n]]
        kept == SelectSeq(at, LAMBDA x : x.n \notin S)
    IN  [m \in 1..Len(kept) |-> kept[m].e]

\* The index of a tree, empty before, after a batch with the recording p is
\* committed as c; and what a view with a limit above c then reads.
Outcome(p, c) == ApplyOps([k \in Keys |-> <<>>], Replay(p), c)

OutcomeReads(t, p, c) ==
    [k \in Keys |-> TreeReadIn(Outcome(p, c), tree_log[t], c + 1, k)]

\* The entries of the batch b in the log of tree t, with their addresses.
LogOf(t, b) ==
    SelectSeq([m \in 1..Len(tree_log[t]) |-> [cmd |-> tree_log[t][m], addr |-> m]],
              LAMBDA e : e.cmd.batch = b)

\* C13: the save-point law.  For what a batch appended to a tree, and every
\* push whose matching rollback or pop follows it (what lies between being
\* any well-nested run of mutators and save points, with delete_range one
\* mutation): with a rollback, committing gives the index and the reads that
\* committing without the segment gives; with a pop, those that committing
\* with the two markers left out gives.  And the index a committed batch
\* leaves is this outcome of what it appended.
C13_SavePointLaw ==
    \A b \in Batches, t \in Trees :
        LET p == LogOf(t, b)
            c == wb[b].commit
        IN  /\ wb[b].result = "ok" => index[t] = Outcome(p, c)
            /\ \A i \in 1..Len(p), j \in 1..Len(p) :
                  (/\ i < j
                   /\ p[i].cmd.type = "PushSavePoint"
                   /\ WellNested(SubSeq(p, i + 1, j - 1))) =>
                      /\ p[j].cmd.type = "RollbackSavePoint" =>
                            /\ Outcome(p, c) = Outcome(Without(p, i..j), c)
                            /\ OutcomeReads(t, p, c) = OutcomeReads(t, Without(p, i..j), c)
                      /\ p[j].cmd.type = "PopSavePoint" =>
                            /\ Outcome(p, c) = Outcome(Without(p, {i, j}), c)
                            /\ OutcomeReads(t, p, c) = OutcomeReads(t, Without(p, {i, j}), c)

\* A committed batch that wrote a key and then, two save points deep, deleted
\* its range and rolled the inner save point back and popped the outer one:
\* the index holds the write alone.
C13_Witness ==
    \E b \in Batches :
        LET t == TreeSeq[1]
            p == LogOf(t, b)
        IN  /\ wb[b].result = "ok"
            /\ Len(p) >= 6
            /\ p[1].cmd.type = "Write"
            /\ p[2].cmd.type = "PushSavePoint"
            /\ p[3].cmd.type = "PushSavePoint"
            /\ p[4].cmd.type = "DeleteRange" /\ p[4].cmd.end > p[1].cmd.key
            /\ p[5].cmd.type = "RollbackSavePoint"
            /\ p[6].cmd.type = "PopSavePoint"
            /\ Len(index[t][p[1].cmd.key]) = 1

\* --------------------------------------------------------------- C14
\* The compact() calls between claiming the compaction and resetting the state.
InCompaction ==
    {p \in Compactors :
        compactor[p].pc \in {"rotate", "wait", "open", "merge", "promote", "reset"}}

C14_State ==
    /\ Cardinality(InCompaction) <= 1
    /\ InCompaction # {} => compact_state = "Compacting"

C14_Step ==
    /\ \A p \in Compactors :
          compactor[p].pc = "start" /\ compactor'[p].pc # "start" =>
              IF compact_state = "NotCompacting"
              THEN compact_state' = "Compacting" /\ compactor'[p].pc = "rotate"
                   /\ trees' = trees
              ELSE compactor'[p].pc = "done" /\ compactor'[p].result = "false"
                   /\ trees' = trees /\ compact_state' = compact_state
    /\ trees' # trees =>
          \E p \in InCompaction : compactor'[p] # compactor[p]

\* C14: at most one compact() call is between claiming and resetting; a call
\* that finds the state Compacting returns false and changes no slot; a call
\* that finds NotCompacting sets Compacting before any slot is rotated.
C14_CompactionMutualExclusion == [](C14_State) /\ [][C14_Step]_vars

\* One call is rotating the slots while another has been turned away.
C14_Witness ==
    \E p, q \in Compactors :
        /\ compactor[p].pc = "wait"
        /\ compactor[q].pc = "done" /\ compactor[q].result = "false"

\* --------------------------------------------------------------- C15
\* The latest version of k visible at commit_limit in a slot, if any.
SlotVisible(tree, commit_limit, k) ==
    IF tree.some THEN SelectSeq(tree.index[k], LAMBDA e : e.commit < commit_limit)
    ELSE <<>>

\* The value compaction has to keep for k: the latest visible status of k in
\* compacting, else in compacted, when it is Written.
Kept(compacting, compacted, commit_limit, k) ==
    LET new == SlotVisible(compacting, commit_limit, k)
        old == SlotVisible(compacted, commit_limit, k)
        h   == IF new # <<>> THEN new ELSE old
    IN  IF h # <<>> /\ h[Len(h)].status = "Written" THEN {h[Len(h)].value} ELSE {}

\* The values a slot holds for k.
Held(tree, k) == {tree.index[k][n].value : n \in 1..Len(tree.index[k])}

C15_Step ==
    \A p \in Compactors :
        compactor[p].pc = "promote" /\ compactor'[p].pc # "promote" =>
            \A k \in Keys :
                Held(trees'.compacted, k) =
                    Kept(trees.compacting, trees.compacted, compactor[p].commit_limit, k)

\* C15: when a compaction completes, the new compacted tree holds for every
\* key exactly its latest visible Written value across compacting (preferred)
\* and the old compacted tree, and nothing for a key whose latest visible
\* status is Deleted; a key only the old compacted tree held keeps its value.
C15_CompactionPreservesContent == [][C15_Step]_vars

\* --------------------------------------------------------------- C16
\* The trees that received ReadyCommit in the round a WriteBatch just ran.
ReadyTrees(w) ==
    {w.tried[n].tree : n \in {m \in 1..Len(w.tried) :
                                 w.tried[m].type = "ReadyCommit" /\ w.tried[m].ok}}

\* The trees an AbortCommit append was attempted on in that round.
AbortTried(w) ==
    {w.tried[n].tree : n \in {m \in 1..Len(w.tried) : w.tried[m].type = "AbortCommit"}}

\* C16: when commit() returns the error of a failed ReadyCommit append, an
\* AbortCommit append was attempted on every tree that had received
\* ReadyCommit in the round, and the error returned is that of the failed
\* ReadyCommit whatever became of the abort appends.
C16_AbortsReachReadyTrees ==
    \A b \in Batches :
        wb[b].result = "err_ready" =>
            /\ ReadyTrees(wb[b]) \subseteq AbortTried(wb[b])
            /\ wb[b].error \in 1..NTrees
            /\ wb[b].tried[wb[b].error] = Tried("ReadyCommit", TreeSeq[wb[b].error], FALSE)


\* --------------------------------------------------------------- C17
\* The batches between acquiring commit_lock and storing view_commit_limit.
InCommit == {b \in Batches : wb[b].pc \in {"write_commit", "promote", "swap"}}

C17_State ==
    /\ Cardinality(InCommit) <= 1
    /\ \A b \in InCommit : commit_lock = b
    /\ \A b \in Batches : wb[b].commit < next_commit
    /\ \A n \in 1..Len(commit_log) : commit_log[n].commit < next_commit
    /\ \A n, m \in 1..Len(commit_log) :
          n < m => commit_log[n].commit < commit_log[m].commit

C17_Step ==
    /\ \A b \in Batches :
          wb[b].pc = "commit" /\ wb'[b].pc = "write_commit" =>
              /\ InCommit = {}
              /\ wb'[b].commit = next_commit
              /\ next_commit' = next_commit + 1
    /\ commit_log' # commit_log =>
          /\ commit_lock \in InCommit
          /\ commit_log' = Append(commit_log,
                                  CommitCommand(commit_lock, wb[commit_lock].bc,
                                                next_commit - 1))
          /\ wb[commit_lock].commit = next_commit - 1

\* C17: at most one commit() is between acquiring commit_lock and storing
\* view_commit_limit; each acquisition takes a Commit number above every
\* number taken before; and the master commit record a commit() appends
\* carries the number of the latest acquisition, so the commit log is in
\* strictly increasing Commit order, whether or not earlier appends failed.
C17_CommitsSerialized == [](C17_State) /\ [][C17_Step]_vars

\* A second batch is promoting under the lock after another batch committed.
C17_Witness ==
    \E b \in Batches :
        /\ wb[b].pc = "promote"
        /\ wb[b].commit = 1
        /\ Len(commit_log) = 2
        /\ commit_log[1].batch # b


\* --------------------------------------------------------------- C18
\* The history entries of (t, k) a view pinned at commit_limit can read.
Readable(t, k, commit_limit) ==
    {index[t][k][n] : n \in {m \in 1..Len(index[t][k]) :
                                index[t][k][m].commit < commit_limit}}

\* C18: the commit numbers of every history list are strictly increasing, also
\* when one batch mutates a key several times or commits after a failed
\* attempt, and every entry a view can read has a commit below
\* view_commit_limit.
C18_HistoryStrictlyIncreasing ==
    /\ \A t \in Trees, k \in Keys :
          \A n, m \in 1..Len(index[t][k]) :
              n < m => index[t][k][n].commit < index[t][k][m].commit
    /\ \A v \in views, t \in Trees, k \in Keys :
          \A e \in Readable(t, k, v) : e.commit < view_commit_limit


\* --------------------------------------------------------------- C20
\* The BatchCommit numbers of the rounds recorded in the tree logs.
LoggedBatchCommits ==
    UNION {{tree_log[t][n].batch_commit :
               n \in {m \in 1..Len(tree_log[t]) :
                         tree_log[t][m].type \in {"ReadyCommit", "AbortCommit"}}} :
           t \in Trees}

\* The WriteBatches that are inside a commit() or abort() round.
InRound ==
    {b \in Batches :
        wb[b].pc \in {"ready", "commit", "write_commit", "promote", "swap", "abort"}}

C20_State ==
    /\ \A b \in Batches : wb[b] # NoWb <=> b < next_batch
    /\ \A bc \in LoggedBatchCommits : bc < next_batch_commit
    /\ \A b \in InRound : wb[b].bc < next_batch_commit
    /\ \A b, c \in InRound : b # c => wb[b].bc # wb[c].bc

C20_Step ==
    /\ next_batch' # next_batch =>
          /\ next_batch' = next_batch + 1
          /\ wb[next_batch] = NoWb /\ wb'[next_batch] # NoWb
    /\ \A b \in Batches :
          wb[b].pc = "idle" /\ wb'[b].pc \in {"ready", "abort"} =>
              /\ wb'[b].bc = next_batch_commit
              /\ next_batch_commit' = next_batch_commit + 1
              /\ next_batch_commit \notin LoggedBatchCommits
    /\ next_batch_commit' # next_batch_commit =>
          \E b \in Batches : wb[b].pc = "idle" /\ wb'[b].pc \in {"ready", "abort"}
    /\ next_commit' >= next_commit

\* C20: within one run, batch() hands out each Batch number once, every
\* commit() or abort() round draws a BatchCommit no earlier round of any batch
\* has drawn, and the counters only grow, by one per allocation.
C20_IdentifiersUniqueWithinRun == [](C20_State) /\ [][C20_Step]_vars

\* A batch starts a second round, with BatchCommit 1, after a round with 0.
C20_Witness ==
    \E b \in Batches, t \in Trees :
        /\ wb[b].pc = "ready" /\ wb[b].bc = 1
        /\ \E n \in 1..Len(tree_log[t]) :
              /\ tree_log[t][n].type \in {"ReadyCommit", "AbortCommit"}
              /\ tree_log[t][n].batch = b
              /\ tree_log[t][n].batch_commit = 0


\* --------------------------------------------------------------- C21
\* C21: whenever the compaction state is NotCompacting the slots compacting
\* and compacted_wip are empty, so no compact() call fails the assertions of
\* the rotation step, also after compactions that returned an error.
C21_SlotsEmptyWhenNotCompacting ==
    /\ compact_state = "NotCompacting" =>
          ~trees.compacting.some /\ ~trees.compacted_wip.some
    /\ \A p \in Compactors : compactor[p].pc # "panicked"


\* --------------------------------------------------------------- C22
\* The first key of a tree cursor's snapshot, as a set: empty when the tree
\* cursor is not valid after its own seek_first.
FirstKey(tc) == {k \in tc.keys : \A j \in tc.keys : k <= j}

FirstKeys(c) == UNION {FirstKey(c.trees[n]) : n \in 1..Len(c.trees)}

\* C22: after seek_first the merge cursor is valid exactly when a constituent
\* is valid after its own seek_first; its key is then the smallest of the
\* constituents' first keys, and when both stand on that key the current
\* source is the compacting one, index 0.
C22_SeekFirstPicksMinimum ==
    merge_cursor.last = "seek_first" =>
        /\ CursorValid(merge_cursor) <=> FirstKeys(merge_cursor) # {}
        /\ CursorValid(merge_cursor) =>
              /\ \A k \in FirstKeys(merge_cursor) : CursorKey(merge_cursor) <= k
              /\ CursorKey(merge_cursor) \in FirstKeys(merge_cursor)
              /\ (FirstKey(merge_cursor.trees[1]) = FirstKey(merge_cursor.trees[2])
                    => merge_cursor.current = 0)

\* Sought again after advancing: both constituents stand on the same first
\* key, and the compacted one holds further keys.
C22_Witness ==
    /\ merge_cursor.last = "seek_first"
    /\ TcValid(merge_cursor.trees[1])
    /\ TcKey(merge_cursor.trees[1]) = TcKey(merge_cursor.trees[2])
    /\ merge_cursor.current = 0
    /\ Cardinality(merge_cursor.trees[2].keys) > 1


\* --------------------------------------------------------------- C23
\* The init() calls that entered the loader, and those that stored the counters.
LoaderRuns == {c \in InitCalls : init_calls[c] \in {"loading", "ok", "err"}}

Stored == {c \in InitCalls : init_calls[c] = "ok"}

\* C23: over any interleaving of init() calls the loader runs at most once
\* and the counters are stored at most once, every other call failing the
\* assertion; and while the only calls to return have returned the loader's
\* error, initialized is false and the counters are as Db::new left them.
C23_InitOnce ==
    /\ Cardinality(LoaderRuns) <= 1
    /\ Cardinality(Stored) <= 1
    /\ Stored = {} =>
          /\ ~initialized
          /\ next_batch = 0 /\ next_batch_commit = 0
          /\ next_commit = 0 /\ view_commit_limit = 0


\* --------------------------------------------------------------- C24
\* The records of batch b in the log of tree t, each with its address.
Recorded(t, b) ==
    SelectSeq([n \in 1..Len(tree_log[t]) |-> [cmd |-> tree_log[t][n], addr |-> n]],
              LAMBDA e : e.cmd.batch = b)

\* The player of every batch holds the records the log took from the batch,
\* with their addresses, in the order of the appends; and an index entry
\* points at a mutation of its key that the log holds.
C24_State ==
    /\ \A t \in Trees, b \in Batches : player[t][b] = Recorded(t, b)
    /\ \A t \in Trees, k \in Keys :
          \A n \in 1..Len(index[t][k]) :
              LET addr == index[t][k][n].addr
              IN  /\ addr \in 1..Len(tree_log[t])
                  /\ CASE tree_log[t][addr].type = "Write" ->
                              /\ tree_log[t][addr].key = k
                              /\ index[t][k][n].status = "Written"
                       [] tree_log[t][addr].type = "Delete" ->
                              /\ tree_log[t][addr].key = k
                              /\ index[t][k][n].status = "Deleted"
                       [] tree_log[t][addr].type = "DeleteRange" ->
                              /\ tree_log[t][addr].key <= k /\ k < tree_log[t][addr].end
                              /\ index[t][k][n].status = "Deleted"
                       [] OTHER -> FALSE

\* The player changes only with a successful append, and the index only when
\* a commit replays the player of its batch.
C24_Step ==
    \A t \in Trees :
        /\ tree_log'[t] = tree_log[t] => player'[t] = player[t]
        /\ index'[t] # index[t] =>
              \E b \in Batches :
                  /\ wb[b].pc = "promote" /\ TreeSeq[wb[b].i] = t
                  /\ index'[t] = ApplyOps(index[t], Replay(player[t][b]), wb[b].commit)

\* C24: an append that fails leaves the tree's batch player and index as they
\* were, so a later commit applies only what the log took; an append that
\* succeeds is recorded in the player with its address, in append order.
C24_FailedAppendChangesNothing == [](C24_State) /\ [][C24_Step]_vars

\* The ReadyCommit append of a batch failed on the first tree, whose log
\* holds a write of the batch at address 2, after a record of another batch.
C24_Witness ==
    \E b \in Batches :
        /\ wb[b].result = "err_ready" /\ wb[b].error = 1
        /\ Len(player[TreeSeq[1]][b]) = 1
        /\ player[TreeSeq[1]][b][1].addr = 2
        /\ player[TreeSeq[1]][b][1].cmd.type = "Write"


\* --------------------------------------------------------------- C25
\* The mutations of a batch applied in issue order to a map from keys to
\* values, 0 for a key without a value.
RECURSIVE InIssueOrder(_, _)
InIssueOrder(m, ops) ==
    IF ops = <<>> THEN m
    ELSE LET c == Head(ops).cmd
             nxt == CASE c.type = "Write" -> [m EXCEPT ![c.key] = c.value]
                      [] c.type = "Delete" -> [m EXCEPT ![c.key] = 0]
                      [] OTHER -> [k \in Keys |->
                                      IF c.key <= k /\ k < c.end THEN 0 ELSE m[k]]
         IN  InIssueOrder(nxt, Tail(ops))

\* What a read has to return for a key the map holds as v.
ReadOf(v) == IF v = 0 THEN ReadNone ELSE ReadOk(v)

\* C25: once the batch has committed, a fresh view reads for every key of the
\* tree the outcome of the batch's mutations applied in issue order: the last
\* write or delete of the key wins, a delete_range after a write of a key in
\* its range leaves None, a write after it its value, and an empty range
\* changes nothing.
C25_CommitAppliesInIssueOrder ==
    \A b \in Batches :
        wb[b].result = "ok" =>
            LET t == TreeSeq[1]
                m == InIssueOrder([k \in Keys |-> 0], Replay(player[t][b]))
            IN  \A k \in Keys : ViewRead(view_commit_limit, t, k) = ReadOf(m[k])

====
